---- MODULE Spec2Model ----
(***************************************************************************)
(* Model of the yatube REST API (posts, groups, comments, follows): the    *)
(* persisted tables of posts/models.py, the serializers of                 *)
(* api/serializers.py and the request handlers of api/views.py, each       *)
(* handler being one action that runs the framework's request pipeline     *)
(* (permission check, object lookup, validation, save) to its response.    *)
(***************************************************************************)
EXTENDS Integers, Sequences, FiniteSets, TLC

VARIABLES
    groups,      \* Group table: the set of existing group keys
    posts,       \* Post table: set of rows [id, author, text, group]
    comments,    \* Comment table: set of rows [id, author, post, text]
    follows,     \* Follow table: sequence of rows [user, following]
    nextPostId,  \* auto-increment primary key of the Post table
    nextCommentId, \* auto-increment primary key of the Comment table
    inflight,    \* create-follow requests between validation and save
    last         \* the request handled last and its response

vars == <<groups, posts, comments, follows, nextPostId, nextCommentId,
          inflight, last>>

-----------------------------------------------------------------------------
(* Bounds of the model *)

MaxPosts == 2
MaxComments == 1
MaxFollows == 3
MaxInFlight == 2

-----------------------------------------------------------------------------
(* Value universes *)

Users == {"u1", "u2"}
Anon == "anonymous"
Requesters == Users \cup {Anon}
Usernames == Users \cup {"ghost"}
Groups == {"g1", "g2"}
Texts == {"a", "b"}
PostIds == 1..MaxPosts
CommentIds == 1..MaxComments
Slots == 1..MaxInFlight

\* An optional value: <<>> when absent (null / not in the body), <<v>> when set.
Opt(S) == {<<>>} \cup {<<x>> : x \in S}

-----------------------------------------------------------------------------
(* Authentication and permissions *)

IsAuthenticated(user) == user \in Users

SafeMethods == {"GET"}

\* api/permission.py: safe methods are open, a mutating method on an
\* entity needs the requester to be its author.
OwnerOrReadOnlyObject(method, user, obj) ==
    method \in SafeMethods \/ obj.author = user

\* Creating an entity needs an authenticated requester, who becomes its author.
OwnerOrReadOnlyView(method, user) ==
    method # "POST" \/ IsAuthenticated(user)

\* Status of a refused request: 401 without credentials, else 403.
Denied(user) == IF IsAuthenticated(user) THEN 403 ELSE 401

-----------------------------------------------------------------------------
(* Follow: serializer and handlers *)

FollowBodies == [following : Opt(Usernames), user : Opt(Users)]

Edge(user, following) == [user |-> user, following |-> following]

HasEdge(rows, user, following) ==
    \E i \in 1..Len(rows) : rows[i] = Edge(user, following)

\* SlugRelatedField(slug_field='username', queryset=User.objects.all()):
\* required, and the username must name an existing user.
FollowingResolves(body) ==
    body.following # <<>> /\ body.following[1] \in Users

NoUniqueTogetherValidator(rows, user, following) == TRUE

\* Meta.validators: the (user, following) pair must not be stored yet;
\* user is the read-only field's default, the requester.
UniqueTogetherValidator(rows, user, following) ==
    ~HasEdge(rows, user, following)

NoSelfCheck(user, following) == TRUE

\* FollowSerializer.validate: the requester may not follow themself.
FollowSerializerValidate(user, following) == user # following

\* serializer.is_valid(): field validation, then the validators, then validate().
FollowIsValid(rows, user, body) ==
    /\ FollowingResolves(body)
    /\ UniqueTogetherValidator(rows, user, body.following[1])
    /\ FollowSerializerValidate(user, body.following[1])

NoUniqueConstraint(rows, user, following) == TRUE

\* Follow.Meta.constraints: the storage refuses a second row of a pair.
UniqueConstraint(rows, user, following) ==
    ~HasEdge(rows, user, following)

\* FollowViewSet has no permission_classes: the project default applies.
FollowPermission(user) == IsAuthenticated(user)

\* perform_create: serializer.save(user=request.user); the INSERT either
\* appends the row (201) or raises IntegrityError (500).
FollowSaveStatus(rows, user, following) ==
    IF UniqueConstraint(rows, user, following) THEN 201 ELSE 500

FollowSaveRows(rows, user, following) ==
    IF UniqueConstraint(rows, user, following)
    THEN Append(rows, Edge(user, following))
    ELSE rows

FollowRequest(op, user, body, status, result) ==
    [op |-> op, user |-> user, body |-> body, status |-> status,
     result |-> result]

NoBody == [following |-> <<>>, user |-> <<>>]

\* POST /v1/follow/ handled from request to response.
CreateFollow(user, body) ==
    /\ Len(follows) < MaxFollows
    /\ IF ~FollowPermission(user)
       THEN /\ last' = FollowRequest("create_follow", user, body, Denied(user), {})
            /\ UNCHANGED follows
       ELSE IF ~FollowIsValid(follows, user, body)
       THEN /\ last' = FollowRequest("create_follow", user, body, 400, {})
            /\ UNCHANGED follows
       ELSE /\ follows' = FollowSaveRows(follows, user, body.following[1])
            /\ last' = FollowRequest("create_follow", user, body,
                         FollowSaveStatus(follows, user, body.following[1]), {})
    /\ UNCHANGED <<groups, posts, comments, nextPostId, nextCommentId, inflight>>

\* FollowViewSet.get_queryset: the edges whose follower is the requester.
FollowQueryset(rows, user) ==
    {rows[i] : i \in {j \in 1..Len(rows) : rows[j].user = user}}

\* GET /v1/follow/
ListFollow(user) ==
    /\ IF ~FollowPermission(user)
       THEN last' = FollowRequest("list_follow", user, NoBody, Denied(user), {})
       ELSE last' = FollowRequest("list_follow", user, NoBody, 200,
                                  FollowQueryset(follows, user))
    /\ UNCHANGED <<groups, posts, comments, follows, nextPostId,
                   nextCommentId, inflight>>

Idle == [pc |-> "idle", user |-> Anon, body |-> NoBody]

InitDb ==
    /\ groups = {}
    /\ posts = {}
    /\ comments = {}
    /\ follows = <<>>
    /\ nextPostId = 1
    /\ nextCommentId = 1
    /\ inflight = [s \in Slots |-> Idle]

FollowInit ==
    /\ InitDb
    /\ last = FollowRequest("none", Anon, NoBody, 0, {})

FollowNext ==
    \/ \E user \in Requesters, body \in FollowBodies : CreateFollow(user, body)
    \/ \E user \in Requesters : ListFollow(user)

FollowSpec == FollowInit /\ [][FollowNext]_vars

-----------------------------------------------------------------------------
(* Follow: two or more create-follow requests handled by concurrent workers. *)
(* A worker validates against the table as it is then, and saves later.      *)

Validated(slots) == {s \in Slots : slots[s].pc = "validated"}

\* First half of create(): permission check and serializer.is_valid().
ValidateFollow(slot, user, body) ==
    /\ inflight[slot].pc = "idle"
    /\ Len(follows) + Cardinality(Validated(inflight)) < MaxFollows
    /\ IF ~FollowPermission(user)
       THEN /\ last' = FollowRequest("create_follow", user, body, Denied(user), {})
            /\ UNCHANGED inflight
       ELSE IF ~FollowIsValid(follows, user, body)
       THEN /\ last' = FollowRequest("create_follow", user, body, 400, {})
            /\ UNCHANGED inflight
       ELSE /\ inflight' = [inflight EXCEPT ![slot] =
                               [pc |-> "validated", user |-> user, body |-> body]]
            /\ last' = FollowRequest("validate_follow", user, body, 0, {})
    /\ UNCHANGED <<groups, posts, comments, follows, nextPostId, nextCommentId>>

\* Second half of create(): perform_create, the INSERT and the response.
SaveFollow(slot) ==
    /\ inflight[slot].pc = "validated"
    /\ LET user == inflight[slot].user
           body == inflight[slot].body
       IN /\ follows' = FollowSaveRows(follows, user, body.following[1])
          /\ last' = FollowRequest("create_follow", user, body,
                       FollowSaveStatus(follows, user, body.following[1]), {})
    /\ inflight' = [inflight EXCEPT ![slot] = Idle]
    /\ UNCHANGED <<groups, posts, comments, nextPostId, nextCommentId>>

FollowConcNext ==
    \/ \E slot \in Slots, user \in Requesters, body \in FollowBodies :
          ValidateFollow(slot, user, body)
    \/ \E slot \in Slots : SaveFollow(slot)

FollowConcSpec == FollowInit /\ [][FollowConcNext]_vars

-----------------------------------------------------------------------------
(* Posts, groups and comments: requests, bodies, lookups *)

\* A request body: text and group are writable fields of a post, text of a
\* comment; author and post are values a client may send for read-only fields.
Bodies == [text : Opt(Texts), group : Opt(Groups), author : Opt(Users),
           post : Opt(PostIds)]
PostBodies == {b \in Bodies : b.post = <<>>}
CommentBodies == {b \in Bodies : b.group = <<>>}
EmptyBody == [text |-> <<>>, group |-> <<>>, author |-> <<>>, post |-> <<>>]

ApiRequest(op, user, post, id, body, status, result) ==
    [op |-> op, user |-> user, post |-> post, id |-> id, body |-> body,
     status |-> status, result |-> result]

PostRow(id, author, text, group) ==
    [id |-> id, author |-> author, text |-> text, group |-> group]

CommentRow(id, author, post, text) ==
    [id |-> id, author |-> author, post |-> post, text |-> text]

RowExists(rows, pk) == \E r \in rows : r.id = pk
RowById(rows, pk) == CHOOSE r \in rows : r.id = pk

\* The HTTP method of an update: PUT validates the whole record, PATCH is partial.
Partial(method) == method = "PATCH"
UpdateOp(method, kind) ==
    IF Partial(method) THEN "partial_update_" \o kind ELSE "update_" \o kind

-----------------------------------------------------------------------------
(* Group and Post models *)

\* A Group row created outside the API (the API exposes groups read-only).
\* The record of such a step has no requester and no status; result holds
\* the rows the step collected.
CreateGroup(g) ==
    /\ g \notin groups
    /\ groups' = groups \cup {g}
    /\ last' = ApiRequest("create_group", Anon, 0, 0,
                          [EmptyBody EXCEPT !.group = <<g>>], 0, {})
    /\ UNCHANGED <<posts, comments, follows, nextPostId, nextCommentId, inflight>>

GroupCascade(rows, g) == {r \in rows : r.group # <<g>>}

\* Post.group: on_delete=SET_NULL, null=True.
GroupOnDelete(rows, g) ==
    {IF r.group = <<g>> THEN [r EXCEPT !.group = <<>>] ELSE r : r \in rows}

\* Group.delete() outside the API.
DeleteGroup(g) ==
    /\ g \in groups
    /\ groups' = groups \ {g}
    /\ posts' = GroupOnDelete(posts, g)
    /\ last' = ApiRequest("delete_group", Anon, 0, 0,
                          [EmptyBody EXCEPT !.group = <<g>>], 0,
                          {r \in posts : r.group = <<g>>})
    /\ UNCHANGED <<comments, follows, nextPostId, nextCommentId, inflight>>

PostNoCascade(rows, pk) == rows

\* Comment.post: on_delete=CASCADE.
PostOnDelete(rows, pk) == {c \in rows : c.post # pk}

-----------------------------------------------------------------------------
(* Post: serializer and handlers *)

\* PostViewSet.permission_classes
PostObjectPermission(method, user, obj) == OwnerOrReadOnlyObject(method, user, obj)
PostViewPermission(method, user) == OwnerOrReadOnlyView(method, user)

\* PostSerializer.is_valid(): text is required unless the update is partial;
\* group, when given, must be the key of an existing Group.
PostIsValid(body, partial) ==
    /\ partial \/ body.text # <<>>
    /\ body.group # <<>> => body.group[1] \in groups

PostCreateFromBody(pk, user, body) ==
    PostRow(pk, IF body.author # <<>> THEN body.author[1] ELSE user,
            body.text[1], body.group)

\* perform_create: serializer.save(author=self.request.user); author is
\* read_only in the serializer, so the body's author never reaches the row.
PostPerformCreate(pk, user, body) ==
    PostRow(pk, user, body.text[1], body.group)

\* serializer.save() of an update: the writable fields the body carries.
PostPerformUpdate(row, body) ==
    [row EXCEPT !.text = IF body.text # <<>> THEN body.text[1] ELSE @,
                !.group = IF body.group # <<>> THEN body.group ELSE @]

\* POST /v1/posts/
CreatePost(user, body) ==
    /\ IF ~PostViewPermission("POST", user)
       THEN /\ last' = ApiRequest("create_post", user, 0, 0, body, Denied(user), {})
            /\ UNCHANGED <<posts, nextPostId>>
       ELSE IF ~PostIsValid(body, FALSE)
       THEN /\ last' = ApiRequest("create_post", user, 0, 0, body, 400, {})
            /\ UNCHANGED <<posts, nextPostId>>
       ELSE /\ nextPostId <= MaxPosts
            /\ LET row == PostPerformCreate(nextPostId, user, body)
               IN /\ posts' = posts \cup {row}
                  /\ last' = ApiRequest("create_post", user, 0, row.id, body,
                                        201, {row})
            /\ nextPostId' = nextPostId + 1
    /\ UNCHANGED <<groups, comments, follows, nextCommentId, inflight>>

\* GET /v1/posts/
ListPosts(user) ==
    /\ last' = ApiRequest("list_posts", user, 0, 0, EmptyBody, 200, posts)
    /\ UNCHANGED <<groups, posts, comments, follows, nextPostId,
                   nextCommentId, inflight>>

\* GET /v1/posts/{id}/
RetrievePost(user, pk) ==
    /\ IF ~RowExists(posts, pk)
       THEN last' = ApiRequest("retrieve_post", user, 0, pk, EmptyBody, 404, {})
       ELSE last' = ApiRequest("retrieve_post", user, 0, pk, EmptyBody, 200,
                               {RowById(posts, pk)})
    /\ UNCHANGED <<groups, posts, comments, follows, nextPostId,
                   nextCommentId, inflight>>

\* PUT and PATCH /v1/posts/{id}/
UpdatePost(method, user, pk, body) ==
    /\ LET op == UpdateOp(method, "post")
       IN IF ~RowExists(posts, pk)
          THEN /\ last' = ApiRequest(op, user, 0, pk, EmptyBody, 404, {})
               /\ UNCHANGED posts
          ELSE IF ~PostObjectPermission(method, user, RowById(posts, pk))
          THEN /\ last' = ApiRequest(op, user, 0, pk, EmptyBody, Denied(user), {})
               /\ UNCHANGED posts
          ELSE IF ~PostIsValid(body, Partial(method))
          THEN /\ last' = ApiRequest(op, user, 0, pk, EmptyBody, 400, {})
               /\ UNCHANGED posts
          ELSE LET old == RowById(posts, pk)
                   new == PostPerformUpdate(old, body)
               IN /\ posts' = (posts \ {old}) \cup {new}
                  /\ last' = ApiRequest(op, user, 0, pk, EmptyBody, 200, {new})
    /\ UNCHANGED <<groups, comments, follows, nextPostId, nextCommentId, inflight>>

\* DELETE /v1/posts/{id}/ ; result records the comments deleted with the post.
DeletePost(user, pk) ==
    /\ IF ~RowExists(posts, pk)
       THEN /\ last' = ApiRequest("delete_post", user, 0, pk, EmptyBody, 404, {})
            /\ UNCHANGED <<posts, comments>>
       ELSE IF ~PostObjectPermission("DELETE", user, RowById(posts, pk))
       THEN /\ last' = ApiRequest("delete_post", user, 0, pk, EmptyBody,
                                  Denied(user), {})
            /\ UNCHANGED <<posts, comments>>
       ELSE /\ posts' = posts \ {RowById(posts, pk)}
            /\ comments' = PostOnDelete(comments, pk)
            /\ last' = ApiRequest("delete_post", user, 0, pk, EmptyBody, 204,
                                  comments \ comments')
    /\ UNCHANGED <<groups, follows, nextPostId, nextCommentId, inflight>>

\* The read-only author a client may put in a body: none, or somebody else.
SendsAuthor(body, user) == body.author = <<>> \/ body.author # <<user>>

\* Bodies of the post requests of PostSpec: every post is written with the
\* same text, the author and the group are what varies.
GroupBodies == {b \in PostBodies : b.text # <<"b">>}

PostInit ==
    /\ InitDb
    /\ last = ApiRequest("none", Anon, 0, 0, EmptyBody, 0, {})

PostNext ==
    \/ \E g \in Groups : CreateGroup(g)
    \/ \E g \in Groups : DeleteGroup(g)
    \/ \E user \in Requesters :
         \E body \in {b \in GroupBodies : SendsAuthor(b, user)} :
            CreatePost(user, body)
    \/ \E user \in Requesters : ListPosts(user)
    \/ \E user \in Requesters, pk \in PostIds : RetrievePost(user, pk)
    \/ \E method \in {"PUT", "PATCH"}, user \in Requesters, pk \in PostIds,
          body \in {b \in GroupBodies : b.author = <<>>} :
            UpdatePost(method, user, pk, body)
    \/ \E user \in Requesters, pk \in PostIds : DeletePost(user, pk)

PostSpec == PostInit /\ [][PostNext]_vars

-----------------------------------------------------------------------------
(* Comment: serializer and handlers *)

CommentAllowAny(method, user, obj) == TRUE

\* CommentViewSet.permission_classes
CommentObjectPermission(method, user, obj) ==
    OwnerOrReadOnlyObject(method, user, obj)
CommentViewPermission(method, user) == OwnerOrReadOnlyView(method, user)

GetPostAlways(rows, post_id) == TRUE

\* get_post: get_object_or_404(Post, pk=post_id) finds the post or raises 404.
GetPostFound(rows, post_id) == RowExists(rows, post_id)

AllComments(rows, post_id) == rows

\* get_queryset: post.comments.all()
CommentQueryset(rows, post_id) == {c \in rows : c.post = post_id}

\* CommentSerializer.is_valid(): text is required unless the update is partial.
CommentIsValid(body, partial) == partial \/ body.text # <<>>

CommentCreateFromBody(pk, user, post_id, body) ==
    CommentRow(pk, IF body.author # <<>> THEN body.author[1] ELSE user,
               IF body.post # <<>> THEN body.post[1] ELSE post_id, body.text[1])

\* perform_create: serializer.save(post=post, author=self.request.user);
\* author and post are read_only in the serializer.
CommentPerformCreate(pk, user, post_id, body) ==
    CommentRow(pk, user, post_id, body.text[1])

\* serializer.save() of an update: text is the only writable field.
CommentPerformUpdate(row, body) ==
    [row EXCEPT !.text = IF body.text # <<>> THEN body.text[1] ELSE @]

\* POST /v1/posts/{post_id}/comments/
CreateComment(user, post_id, body) ==
    /\ IF ~CommentViewPermission("POST", user)
       THEN /\ last' = ApiRequest("create_comment", user, post_id, 0, body,
                                  Denied(user), {})
            /\ UNCHANGED <<comments, nextCommentId>>
       ELSE IF ~CommentIsValid(body, FALSE)
       THEN /\ last' = ApiRequest("create_comment", user, post_id, 0, body, 400, {})
            /\ UNCHANGED <<comments, nextCommentId>>
       ELSE IF ~GetPostFound(posts, post_id)
       THEN /\ last' = ApiRequest("create_comment", user, post_id, 0, body, 404, {})
            /\ UNCHANGED <<comments, nextCommentId>>
       ELSE /\ nextCommentId <= MaxComments
            /\ LET row == CommentPerformCreate(nextCommentId, user, post_id, body)
               IN /\ comments' = comments \cup {row}
                  /\ last' = ApiRequest("create_comment", user, post_id, row.id,
                                        body, 201, {row})
            /\ nextCommentId' = nextCommentId + 1
    /\ UNCHANGED <<groups, posts, follows, nextPostId, inflight>>

\* GET /v1/posts/{post_id}/comments/
ListComments(user, post_id) ==
    /\ IF ~GetPostFound(posts, post_id)
       THEN last' = ApiRequest("list_comments", user, post_id, 0, EmptyBody, 404, {})
       ELSE last' = ApiRequest("list_comments", user, post_id, 0, EmptyBody, 200,
                               CommentQueryset(comments, post_id))
    /\ UNCHANGED <<groups, posts, comments, follows, nextPostId,
                   nextCommentId, inflight>>

\* get_object(): the comment of that key among the post's comments, or 404.
CommentFound(post_id, pk) ==
    /\ GetPostFound(posts, post_id)
    /\ RowExists(CommentQueryset(comments, post_id), pk)

\* GET /v1/posts/{post_id}/comments/{id}/
RetrieveComment(user, post_id, pk) ==
    /\ IF ~CommentFound(post_id, pk)
       THEN last' = ApiRequest("retrieve_comment", user, post_id, pk, EmptyBody,
                               404, {})
       ELSE last' = ApiRequest("retrieve_comment", user, post_id, pk, EmptyBody,
                               200, {RowById(comments, pk)})
    /\ UNCHANGED <<groups, posts, comments, follows, nextPostId,
                   nextCommentId, inflight>>

\* PUT and PATCH /v1/posts/{post_id}/comments/{id}/
UpdateComment(method, user, post_id, pk, body) ==
    /\ LET op == UpdateOp(method, "comment")
       IN IF ~CommentFound(post_id, pk)
          THEN /\ last' = ApiRequest(op, user, post_id, pk, EmptyBody, 404, {})
               /\ UNCHANGED comments
          ELSE IF ~CommentObjectPermission(method, user, RowById(comments, pk))
          THEN /\ last' = ApiRequest(op, user, post_id, pk, EmptyBody,
                                     Denied(user), {})
               /\ UNCHANGED comments
          ELSE IF ~CommentIsValid(body, Partial(method))
          THEN /\ last' = ApiRequest(op, user, post_id, pk, EmptyBody, 400, {})
               /\ UNCHANGED comments
          ELSE LET old == RowById(comments, pk)
                   new == CommentPerformUpdate(old, body)
               IN /\ comments' = (comments \ {old}) \cup {new}
                  /\ last' = ApiRequest(op, user, post_id, pk, EmptyBody, 200, {new})
    /\ UNCHANGED <<groups, posts, follows, nextPostId, nextCommentId, inflight>>

\* DELETE /v1/posts/{post_id}/comments/{id}/
DeleteComment(user, post_id, pk) ==
    /\ IF ~CommentFound(post_id, pk)
       THEN /\ last' = ApiRequest("delete_comment", user, post_id, pk, EmptyBody,
                                  404, {})
            /\ UNCHANGED comments
       ELSE IF ~CommentObjectPermission("DELETE", user, RowById(comments, pk))
       THEN /\ last' = ApiRequest("delete_comment", user, post_id, pk, EmptyBody,
                                  Denied(user), {})
            /\ UNCHANGED comments
       ELSE /\ comments' = comments \ {RowById(comments, pk)}
            /\ last' = ApiRequest("delete_comment", user, post_id, pk, EmptyBody,
                                  204, {})
    /\ UNCHANGED <<groups, posts, follows, nextPostId, nextCommentId, inflight>>

\* The posts the comment requests run against: two posts by different
\* authors, as CreatePost stores them.
FixturePosts == {PostRow(1, "u1", "a", <<>>), PostRow(2, "u2", "a", <<>>)}

Init ==
    /\ groups = {}
    /\ posts = FixturePosts
    /\ comments = {}
    /\ follows = <<>>
    /\ nextPostId = Cardinality(FixturePosts) + 1
    /\ nextCommentId = 1
    /\ inflight = [s \in Slots |-> Idle]
    /\ last = ApiRequest("none", Anon, 0, 0, EmptyBody, 0, {})

\* Bodies that carry the writable text only.
TextBodies == {b \in Bodies : b.group = <<>> /\ b.author = <<>> /\ b.post = <<>>}

\* Ownership: the mutating requests on posts and on comments.
Next ==
    \/ \E method \in {"PUT", "PATCH"}, user \in Requesters, pk \in PostIds,
          body \in TextBodies : UpdatePost(method, user, pk, body)
    \/ \E user \in Requesters, pk \in PostIds : DeletePost(user, pk)
    \/ \E user \in Requesters, post_id \in PostIds, body \in TextBodies :
          CreateComment(user, post_id, body)
    \/ \E method \in {"PUT", "PATCH"}, user \in Requesters, post_id \in PostIds,
          pk \in CommentIds, body \in TextBodies :
          UpdateComment(method, user, post_id, pk, body)
    \/ \E user \in Requesters, post_id \in PostIds, pk \in CommentIds :
          DeleteComment(user, post_id, pk)

Spec == Init /\ [][Next]_vars

\* Scoping: the comment requests under a post path, and the deletion of posts.
ScopeNext ==
    \/ \E user \in Requesters, pk \in PostIds : DeletePost(user, pk)
    \/ \E user \in Requesters, post_id \in PostIds, body \in TextBodies :
          CreateComment(user, post_id, body)
    \/ \E user \in Requesters, post_id \in PostIds : ListComments(user, post_id)
    \/ \E user \in Requesters, post_id \in PostIds, pk \in CommentIds :
          RetrieveComment(user, post_id, pk)
    \/ \E method \in {"PUT", "PATCH"}, user \in Requesters, post_id \in PostIds,
          pk \in CommentIds, body \in TextBodies :
          UpdateComment(method, user, post_id, pk, body)
    \/ \E user \in Requesters, post_id \in PostIds, pk \in CommentIds :
          DeleteComment(user, post_id, pk)

ScopeSpec == Init /\ [][ScopeNext]_vars

\* The read-only fields a client may put in a comment body: none, or an
\* author and a post other than the server's.
SendsReadOnly(body, user, post_id) ==
    \/ body.author = <<>> /\ body.post = <<>>
    \/ /\ body.author # <<>> /\ body.author # <<user>>
       /\ body.post # <<>> /\ body.post # <<post_id>>

ClientBodies(user, post_id) ==
    {b \in CommentBodies : SendsReadOnly(b, user, post_id)}

CommentNext ==
    \/ \E user \in Requesters, post_id \in PostIds :
         \E body \in ClientBodies(user, post_id) :
            CreateComment(user, post_id, body)
    \/ \E method \in {"PUT", "PATCH"}, user \in Requesters, post_id \in PostIds,
          pk \in CommentIds :
         \E body \in ClientBodies(user, post_id) :
            UpdateComment(method, user, post_id, pk, body)
    \/ \E user \in Requesters, post_id \in PostIds, pk \in CommentIds :
          DeleteComment(user, post_id, pk)

CommentSpec == Init /\ [][CommentNext]_vars

-----------------------------------------------------------------------------
(* Claims about posts and groups (PostSpec) *)

\* C1: after every successful create-post request the stored post's author is
\* the authenticated requester, whatever author the body carried.
C1_AuthorIsRequester ==
    (last.op = "create_post" /\ last.status = 201)
    => /\ IsAuthenticated(last.user)
       /\ RowExists(posts, last.id)
       /\ RowById(posts, last.id).author = last.user

\* A post was created from a body naming another user as author.
C1_Witness ==
    /\ last.op = "create_post"
    /\ last.status = 201
    /\ last.body.author # <<>>
    /\ last.body.author # <<last.user>>
    /\ RowExists(posts, last.id)

GroupDeletionKeepsPosts ==
    last'.op = "delete_group" =>
        LET g == last'.body.group[1]
        IN /\ Cardinality(posts') = Cardinality(posts)
           /\ \A p \in posts :
                IF p.group = <<g>>
                THEN \E q \in posts' : /\ q.id = p.id
                                       /\ q.group = <<>>
                                       /\ q.author = p.author
                                       /\ q.text = p.text
                ELSE p \in posts'

\* C7: deleting a Group deletes no Post: the posts that referred to it remain
\* with group null and their other fields unchanged, the other posts are untouched.
C7_GroupSetNull == [][GroupDeletionKeepsPosts]_vars

\* A group that a post referred to was deleted while another post refers to
\* another group: the first is stored with group null, the second as it was.
C7_Witness ==
    /\ last.op = "delete_group"
    /\ last.result # {}
    /\ \A r \in last.result : [r EXCEPT !.group = <<>>] \in posts
    /\ \E q \in posts : q.group # <<>>

-----------------------------------------------------------------------------
(* Claims about ownership (Spec) *)

PostMutations == {"update_post", "partial_update_post", "delete_post"}
CommentMutations == {"update_comment", "partial_update_comment", "delete_comment"}

\* The post a mutating request addresses, when there is one.
AddressedPosts(req) ==
    IF req.op \in PostMutations THEN {p \in posts : p.id = req.id} ELSE {}

\* The comment a mutating request addresses under its own post's path.
AddressedComments(req) ==
    IF req.op \in CommentMutations
    THEN {c \in comments : c.id = req.id /\ c.post = req.post}
    ELSE {}

Refused(req) ==
    /\ req.status = Denied(req.user)
    /\ posts' = posts
    /\ comments' = comments

NonAuthorRefused ==
    /\ \A p \in AddressedPosts(last') :
          /\ p.author # last'.user => Refused(last')
          /\ p \notin posts' => p.author = last'.user
    /\ \A c \in AddressedComments(last') :
          /\ c.author # last'.user => Refused(last')
          /\ c \notin comments' => c.author = last'.user

\* C4: an update, partial update or delete of a Post or Comment by a requester
\* who is not its author is answered 403 (401 without credentials) and leaves
\* the entity stored as it was; a request that changes or removes the entity it
\* addresses comes from the entity's author.
C4_OwnerOnly == [][NonAuthorRefused]_vars

\* An authenticated non-author's delete of a comment was answered 403 and the
\* comment is still stored.
C4_Witness ==
    /\ last.op = "delete_comment"
    /\ last.status = 403
    /\ \E c \in comments : /\ c.id = last.id
                           /\ c.post = last.post
                           /\ c.author # last.user

-----------------------------------------------------------------------------
(* Claims about comments under a post path (ScopeSpec, CommentSpec) *)

PostDeletionCascades ==
    (last'.op = "delete_post" /\ last'.status = 204) =>
        /\ comments' \subseteq comments
        /\ \A c \in comments : (c \in comments') <=> (c.post # last'.id)

\* C6: deleting a Post deletes the comments whose parent it is and no other
\* comment, and every stored Comment refers to a stored Post.
C6_Cascade ==
    /\ [](\A c \in comments : RowExists(posts, c.post))
    /\ [][PostDeletionCascades]_vars

\* A post was deleted together with its comments.
C6_Witness ==
    /\ last.op = "delete_post"
    /\ last.status = 204
    /\ last.result # {}
    /\ \A c \in last.result : c.post = last.id /\ c \notin comments

UnderMissingPost(req) ==
    /\ req.op \in {"list_comments", "create_comment"}
    /\ ~RowExists(posts, req.post)

\* C8 as claimed, for the requests of authenticated users: a list or create
\* request under the path of a post that does not exist is answered 404.
C8_Original ==
    (UnderMissingPost(last) /\ IsAuthenticated(last.user)) => last.status = 404

MissingPostStatus ==
    UnderMissingPost(last) =>
        /\ last.op = "list_comments" => last.status = 404
        /\ (last.op = "create_comment" /\ IsAuthenticated(last.user)) =>
              IF last.body.text # <<>> THEN last.status = 404
                                       ELSE last.status = 400

MissingPostNoEffect ==
    UnderMissingPost(last') => comments' = comments

\* C8 (amended): under the path of a post that does not exist, a list request
\* and an authenticated create request with a valid body are answered 404, an
\* authenticated create request whose body fails validation is answered 400,
\* and none of these requests creates or changes a Comment.
C8_NotFound == []MissingPostStatus /\ [][MissingPostNoEffect]_vars

\* A valid create request under the path of a deleted post was answered 404.
C8_Witness ==
    /\ last.op = "create_comment"
    /\ last.status = 404
    /\ last.body.text # <<>>
    /\ ~RowExists(posts, last.post)

CreatedUnderPath ==
    (last.op = "create_comment" /\ last.status = 201) =>
        /\ RowExists(comments, last.id)
        /\ RowById(comments, last.id).post = last.post
        /\ RowById(comments, last.id).author = last.user

PostAndAuthorKept ==
    \A c \in comments : \A d \in comments' :
        d.id = c.id => (d.post = c.post /\ d.author = c.author)

\* C9: a Comment created through the path of post P by requester U is stored
\* with post P and author U whatever the body carries, and no later request
\* changes the post or the author of a stored comment.
C9_PostAndAuthorForced == []CreatedUnderPath /\ [][PostAndAuthorKept]_vars

\* A comment was created from a body naming another author and another post.
C9_Witness ==
    /\ last.op = "create_comment"
    /\ last.status = 201
    /\ last.body.author # <<>> /\ last.body.author # <<last.user>>
    /\ last.body.post # <<>> /\ last.body.post # <<last.post>>
    /\ RowExists(comments, last.id)

ListIsScoped ==
    (last.op = "list_comments" /\ RowExists(posts, last.post)) =>
        /\ last.status = 200
        /\ \A c \in comments : (c \in last.result) <=> (c.post = last.post)
        /\ last.result \subseteq comments

CommentDetails == CommentMutations \cup {"retrieve_comment"}

OtherPathNotFound ==
    (/\ last'.op \in CommentDetails
     /\ RowExists(posts, last'.post)
     /\ \E c \in comments : c.id = last'.id /\ c.post # last'.post)
    => (last'.status = 404 /\ comments' = comments)

\* C10: listing under post P returns exactly the comments whose parent is P,
\* and a retrieve, update or delete of comment C through the path of an
\* existing post other than C's parent is answered 404 and leaves the Comment
\* table as it was, whoever the requester is.
C10_ScopedToPath == []ListIsScoped /\ [][OtherPathNotFound]_vars

\* The author of a comment addressed it through another existing post's path
\* with a delete and was answered 404; the comment is still stored.
C10_Witness ==
    /\ last.op = "delete_comment"
    /\ last.status = 404
    /\ RowExists(posts, last.post)
    /\ \E c \in comments : /\ c.id = last.id
                           /\ c.post # last.post
                           /\ c.author = last.user

-----------------------------------------------------------------------------
(* Claims about follows *)

CreatedFollowing(req) == req.body.following[1]

StoredTwice(rows) ==
    \E i, j \in 1..Len(rows) : i # j /\ rows[i] = rows[j]

DuplicateRejected ==
    (/\ last'.op = "create_follow"
     /\ FollowingResolves(last'.body)
     /\ HasEdge(follows, last'.user, CreatedFollowing(last')))
    => (last'.status = 400 /\ follows' = follows)

\* C2: at most one Follow edge is stored for each (user, following) pair, and a
\* create-follow request for a pair that is already stored is answered 400 and
\* leaves the Follow table as it was.
C2_UniqueFollow == [](~StoredTwice(follows)) /\ [][DuplicateRejected]_vars

\* A duplicate request has been answered 400 with the pair's edge in the table.
C2_Witness ==
    /\ last.op = "create_follow"
    /\ last.status = 400
    /\ FollowingResolves(last.body)
    /\ last.user # CreatedFollowing(last)
    /\ HasEdge(follows, last.user, CreatedFollowing(last))

\* C3: a create-follow request whose following resolves to the requester is
\* answered 400, and no stored Follow edge has user equal to following.
C3_NoSelfFollow ==
    /\ \A i \in 1..Len(follows) : follows[i].user # follows[i].following
    /\ (/\ last.op = "create_follow"
        /\ FollowingResolves(last.body)
        /\ CreatedFollowing(last) = last.user)
       => last.status = 400

\* A self-follow request has been answered 400 while other edges are stored.
C3_Witness ==
    /\ last.op = "create_follow"
    /\ last.body.following = <<last.user>>
    /\ last.status = 400
    /\ Len(follows) > 0

\* C5: however the validate and save steps of concurrent create-follow requests
\* interleave, each (user, following) pair is stored at most once.
C5_ConcurrentUnique ==
    \A user \in Users, following \in Users :
        Cardinality({i \in 1..Len(follows) :
                        follows[i] = Edge(user, following)}) <= 1

\* Two requests for one pair both passed validation; the second INSERT was
\* refused by the storage and the pair is stored once.
C5_Witness ==
    /\ last.op = "create_follow"
    /\ last.status = 500
    /\ HasEdge(follows, last.user, CreatedFollowing(last))

====
